---- MODULE Spec2Model ----
(***************************************************************************)
(* Role synchronization between the local user table and the directory's   *)
(* app-role assignments: ChangeUserRoleService.changeUserRole and the      *)
(* other role-mutating services (contact manager / super admin management, *)
(* supervisor assignment).  Every await of the source is one step, so      *)
(* invocations running in different request slots interleave at awaits.    *)
(***************************************************************************)
EXTENDS Integers, Sequences, FiniteSets, TLC

\* ------------------------------------------------------------------ data
\* enum UserRole, as used by the services.
Roles == {"SuperAdmin", "Admin", "Supervisor", "ContactManager", "Employee"}

\* newRole === null (removal), a missing row, JSON null.
Null == "null"

\* a JavaScript undefined (optional field not set, map lookup that misses).
Undefined == "undefined"

\* E-mails of the rows the user table can hold (stored in lower case).
Emails == {"a@x", "b@x"}

\* E-mails as they arrive in a request body: "A@x" differs from "a@x" only
\* in letter case; "c@x" is an address with no row and no directory account.
RequestEmails == Emails \cup {"A@x", "c@x"}

\* String.prototype.toLowerCase on the e-mails of the model.
toLowerCase(s) == IF s = "A@x" THEN "a@x" ELSE s

\* Accounts that exist in the directory (keyed by their lower-case mail).
DirAccounts == {"a@x", "b@x"}

\* Callers of the sequential specification (the table is symmetric in its
\* two rows, and Init ranges over every assignment of roles to them).
Callers == {"a@x"}

\* Request slots: each runs one service invocation at a time.
Procs == {"r1", "r2"}

\* maxRetries passed to updateAzureADWithRetry.
MAX_RETRIES == 2

OK == "ok"

\* Azure AD object ids that arrive as the userId of deleteSuperAdmin, and the
\* internal id of the caller's row (the two id spaces are disjoint).
ObjectIds == {"oid-a", "oid-b"}

OwnerOfOid(x) == IF x = "oid-a" THEN "a@x" ELSE IF x = "oid-b" THEN "b@x" ELSE Null

\* User.id of the row stored under an e-mail.
RowId(e) == IF e = "a@x" THEN "id-a" ELSE IF e = "b@x" THEN "id-b" ELSE Null

UserIds == ObjectIds \cup {RowId(e) : e \in Emails}

VARIABLES
  users,       \* local user table: lower-case email -> role, or Null (no row)
  grants,      \* directory: account -> set of app-role ids assigned on the SP
  pc,          \* per slot: position of the running invocation
  req,         \* per slot: operation, caller snapshot and request body
  targetUser,  \* per slot: role of the row read at the start (Null: no row)
  attempt,     \* per slot: loop counter (attempt of updateAzureADWithRetry,
               \* position in userEmails of bulkAssignRole)
  pending,     \* per slot: the running clear: assignments listed, those deleted
  result,      \* per slot: what the invocation returned or threw
  calls,       \* per slot: store / directory calls issued by the invocation
  auditBy,     \* per slot: audit entries appended by the invocation
  deletedAt    \* e-mails of the rows whose deletedAt column is set

vars == <<users, grants, pc, req, targetUser, attempt, pending, result, calls, auditBy,
          deletedAt>>

\* ------------------------------------------------------- validation rules
\* validateNotSelfChange comparing the caller's row id with the e-mail.
validateNotSelfChange_ById(currentUserEmail, targetEmail) ==
  IF RowId(currentUserEmail) = targetEmail THEN "CANNOT_CHANGE_OWN_ROLE" ELSE OK

validateNotSelfChange(currentUserEmail, targetEmail) ==
  IF currentUserEmail = targetEmail THEN "CANNOT_CHANGE_OWN_ROLE" ELSE OK

validateNotSuperAdminChange(targetRole) ==
  IF targetRole = "SuperAdmin" THEN "CANNOT_CHANGE_SUPERADMIN" ELSE OK

\* validateSupervisorRoleAssignment that lets the removal sentinel through.
validateSupervisorRoleAssignment_NullPasses(callerRole, newRole) ==
  IF callerRole = "Supervisor" /\ newRole # Null /\ newRole # "Employee"
  THEN "SUPERVISOR_LIMITED_ACCESS" ELSE OK

validateSupervisorRoleAssignment(callerRole, newRole) ==
  IF callerRole = "Supervisor" /\ newRole # "Employee"
  THEN "SUPERVISOR_LIMITED_ACCESS" ELSE OK

validateCallerPermissions(callerRole, targetRole, newRole) ==
  IF callerRole = "SuperAdmin" THEN OK
  ELSE IF callerRole = "Admin"
       THEN (IF targetRole = "SuperAdmin" THEN "CANNOT_CHANGE_SUPERADMIN" ELSE OK)
  ELSE IF callerRole = "Supervisor"
       THEN (IF newRole # "Employee" THEN "SUPERVISOR_LIMITED_ACCESS" ELSE OK)
  ELSE "INSUFFICIENT_PERMISSIONS"

validateRoleChange(currentRole, newRole) ==
  IF currentRole = newRole THEN "USER_ALREADY_HAS_ROLE"
  ELSE IF currentRole = "SuperAdmin" THEN "CANNOT_CHANGE_SUPERADMIN"
  ELSE OK

\* The first rule of a sequence of rule results that throws.
FirstError(rs) ==
  IF \A i \in 1..Len(rs) : rs[i] = OK THEN OK
  ELSE rs[CHOOSE i \in 1..Len(rs) : rs[i] # OK /\ \A j \in 1..(i-1) : rs[j] = OK]

\* changeUserRole step 1: the rules run before the target is read.
PreLookupRules(callerEmail, callerRole, userEmail, newRole) ==
  FirstError(<<validateNotSelfChange(callerEmail, userEmail),
               validateSupervisorRoleAssignment(callerRole, newRole)>>)

\* changeUserRole step 2: the rules run on the row that was read, skipped
\* when there is no row.
PostLookupRules(callerRole, targetRole, newRole) ==
  IF targetRole = Null THEN OK
  ELSE FirstError(<<validateNotSuperAdminChange(targetRole),
                    validateCallerPermissions(callerRole, targetRole, newRole),
                    validateRoleChange(targetRole, newRole)>>)

\* ------------------------------------------------------------ user table
\* userService: the row of an e-mail (e-mails are matched without regard to
\* case), Null when there is none.
getUserByEmail(u, email) ==
  IF toLowerCase(email) \in DOMAIN u THEN u[toLowerCase(email)] ELSE Null

\* userService: create the row if absent, else set its role.
upsertUserRole(u, email, role) == [u EXCEPT ![toLowerCase(email)] = role]

\* userService: remove the row; removing an absent row is not an error.
deleteUserByEmail(u, email) == [u EXCEPT ![toLowerCase(email)] = Null]

\* UserManagementRepository.getUserByEmail: findUnique on the lower-cased
\* e-mail.
repoGetUserByEmail(u, email) ==
  IF toLowerCase(email) \in DOMAIN u THEN u[toLowerCase(email)] ELSE Null

\* UserManagementRepository.getUserByAzureAdObjectId: the e-mail (key) of the
\* row with that object id, Null when there is none.
getUserByAzureAdObjectId(u, oid) ==
  IF OwnerOfOid(oid) # Null /\ u[OwnerOfOid(oid)] # Null THEN OwnerOfOid(oid) ELSE Null

\* UserManagementRepository.countSuperAdmins.
countSuperAdmins(u) == Cardinality({e \in DOMAIN u : u[e] = "SuperAdmin"})

\* ------------------------------------------- user management validation
\* The caller handed to the service is a row; it is rejected when its
\* deletedAt is set.
validateCallerExists(callerDeleted) ==
  IF callerDeleted THEN "CALLER_NOT_FOUND" ELSE OK

validateContactManagerCreationPermissions(callerRole) ==
  IF callerRole \notin {"Admin", "SuperAdmin"} THEN "INSUFFICIENT_PERMISSIONS" ELSE OK

validateSuperAdminCreationPermissions(callerRole) ==
  IF callerRole # "SuperAdmin" THEN "INSUFFICIENT_PERMISSIONS" ELSE OK

validateSuperAdminDeletionPermissions(callerRole) ==
  IF callerRole # "SuperAdmin" THEN "INSUFFICIENT_PERMISSIONS" ELSE OK

validateNotSelfCreation(callerEmail, targetEmail) ==
  IF toLowerCase(callerEmail) = toLowerCase(targetEmail)
  THEN "CANNOT_CREATE_YOURSELF" ELSE OK

validateUserNotAlreadyHasRole(existingRole, targetRole) ==
  IF existingRole # Null /\ existingRole = targetRole
  THEN (IF targetRole = "ContactManager" THEN "CONTACT_MANAGER_ALREADY_EXISTS"
        ELSE "SUPER_ADMIN_ALREADY_EXISTS")
  ELSE OK

validateNotSelfDeletion(callerId, targetId) ==
  IF callerId = targetId THEN "CANNOT_DELETE_YOURSELF" ELSE OK

validateSuperAdminExists(user) ==
  IF user = Null THEN "SUPER_ADMIN_NOT_FOUND" ELSE OK

validateNotLastSuperAdmin(remainingCount) ==
  IF remainingCount <= 1 THEN "CANNOT_DELETE_LAST_SUPER_ADMIN" ELSE OK

\* ------------------------------------------------------------- directory
\* app-role id that assignAzureADRole's roleIdMap holds for a role.
adRoleIdMap(role) ==
  IF role \in {"ContactManager", "SuperAdmin"} THEN role ELSE Undefined

\* app-role id that updateAzureADWithRetry's roleIdMap holds for a role
\* (the map has no entry for SuperAdmin).
roleIdMap(role) ==
  IF role \in {"Supervisor", "Admin", "Employee", "ContactManager"} THEN role
  ELSE Undefined

\* validateUserExists: the directory account of an e-mail (the directory
\* matches users without regard to case), or Null when there is none.
ResolveAccount(userEmail) ==
  IF toLowerCase(userEmail) \in DOMAIN grants THEN toLowerCase(userEmail) ELSE Null

\* ---------------------------------------------------------------- results
NoResult == [kind |-> "none", status |-> Undefined, error |-> Undefined,
             previousRole |-> Undefined, newRole |-> Undefined,
             azureADUpdated |-> FALSE, rollbackRequired |-> FALSE]

Thrown(err) == [NoResult EXCEPT !.kind = "thrown", !.error = err]

Returned(status, prev, new, adUpdated, rollback) ==
  [kind |-> "returned", status |-> status, error |-> Undefined,
   previousRole |-> IF prev = Null THEN Undefined ELSE prev,
   newRole |-> new, azureADUpdated |-> adUpdated, rollbackRequired |-> rollback]

NoReq == [op |-> "none", caller |-> Null, callerRole |-> Null,
          email |-> Null, newRole |-> Null, configured |-> TRUE, cancelled |-> FALSE]

NoCalls == [db |-> 0, graph |-> 0]

\* No clear is running.
NoPending == [page |-> {}, removed |-> {}]

Db(p) == [calls EXCEPT ![p].db = @ + 1]
Graph(p) == [calls EXCEPT ![p].graph = @ + 1]

AuditEntry(action, entity, before, after) ==
  [action |-> action, entity |-> entity, dataBefore |-> before, dataAfter |-> after]

ReturnedMsg(msg) == [NoResult EXCEPT !.kind = "returned", !.status = msg]

\* The e-mail under which the slot's target is stored (deleteSuperAdmin
\* names its target by object id).
Target(p) ==
  IF req[p].op = "deleteSuperAdmin" THEN OwnerOfOid(req[p].email)
  ELSE IF req[p].op \in {"bulkAssignRole", "changeSupervisorAssignments"}
       THEN toLowerCase(req[p].email[attempt[p]])
  ELSE toLowerCase(req[p].email)

Idle(p) == pc[p] \in {"idle", "done"}

\* No role operation writes the deletedAt column.
Finish(p, r) ==
  /\ pc' = [pc EXCEPT ![p] = "done"]
  /\ result' = [result EXCEPT ![p] = r]
  /\ UNCHANGED deletedAt

Goto(p, l) ==
  /\ pc' = [pc EXCEPT ![p] = l]
  /\ UNCHANGED <<result, deletedAt>>

\* ------------------------------------------------------------------- Init
\* The directory assignment of a consistent account: the app role of its
\* local role, nothing when it has no local row.
ConsistentGrants(u) == [d \in DirAccounts |-> IF u[d] = Null THEN {} ELSE {u[d]}]

InitUsers == [Emails -> Roles \cup {Null}]

InitSlots ==
  /\ pc = [p \in Procs |-> "idle"]
  /\ req = [p \in Procs |-> NoReq]
  /\ targetUser = [p \in Procs |-> Null]
  /\ attempt = [p \in Procs |-> 0]
  /\ pending = [p \in Procs |-> NoPending]
  /\ result = [p \in Procs |-> NoResult]
  /\ calls = [p \in Procs |-> NoCalls]
  /\ auditBy = [p \in Procs |-> <<>>]

Init ==
  /\ users \in InitUsers
  /\ grants = ConsistentGrants(users)
  /\ deletedAt = {}
  /\ InitSlots

\* --------------------------------------------------------- changeUserRole
\* Entry of an invocation: the caller is a user of the table loaded by the
\* authentication layer (a snapshot of its row).
BeginWith(p, op, caller, email, newRole, configured) ==
  /\ Idle(p)
  /\ users[caller] # Null
  /\ req' = [req EXCEPT ![p] = [op |-> op, caller |-> caller,
                                callerRole |-> users[caller],
                                email |-> email, newRole |-> newRole,
                                configured |-> configured, cancelled |-> FALSE]]
  /\ targetUser' = [targetUser EXCEPT ![p] = Null]
  /\ attempt' = [attempt EXCEPT ![p] = 0]
  /\ pending' = [pending EXCEPT ![p] = NoPending]
  /\ calls' = [calls EXCEPT ![p] = NoCalls]
  /\ auditBy' = [auditBy EXCEPT ![p] = <<>>]
  /\ UNCHANGED <<users, grants>>

\* An invocation in a process whose directory configuration is complete.
Begin(p, op, caller, email, newRole) == BeginWith(p, op, caller, email, newRole, TRUE)

\* changeUserRole, step 1: destructure the request and run the rules that
\* need no I/O.
CurEntry(p, caller, email, newRole, configured) ==
  /\ BeginWith(p, "changeUserRole", caller, email, newRole, configured)
  /\ LET e == PreLookupRules(caller, users[caller], email, newRole) IN
       IF e # OK THEN Finish(p, Thrown(e)) ELSE Goto(p, "curLookup")

CurStart(p, caller, email, newRole) == CurEntry(p, caller, email, newRole, TRUE)

\* getGraphToken: the error it throws when it fails (without tenant id,
\* client id or client secret it throws before any request is sent).
TokenError(p) ==
  IF req[p].configured THEN "GRAPH_ERROR" ELSE "MISSING_AZURE_AD_CONFIG"

\* changeUserRole with validateUserExists called before the rules on the row.
CurLookup_ResolveFirst(p) ==
  /\ pc[p] = "curLookup"
  /\ calls' = [calls EXCEPT ![p].db = @ + 1, ![p].graph = @ + 1]
  /\ UNCHANGED <<users, grants, req, attempt, pending, auditBy>>
  /\ \/ /\ targetUser' = [targetUser EXCEPT ![p] = getUserByEmail(users, req[p].email)]
        /\ LET e == PostLookupRules(req[p].callerRole, getUserByEmail(users, req[p].email),
                                    req[p].newRole) IN
             IF e # OK THEN Finish(p, Thrown(e)) ELSE Goto(p, "curToken")
     \/ /\ UNCHANGED targetUser
        /\ Finish(p, Thrown("DB_ERROR"))

\* step 2: getUserByEmail, then the rules on the row that was found.
CurLookup(p) ==
  /\ pc[p] = "curLookup"
  /\ calls' = Db(p)
  /\ UNCHANGED <<users, grants, req, attempt, pending, auditBy>>
  /\ \/ /\ targetUser' = [targetUser EXCEPT ![p] = getUserByEmail(users, req[p].email)]
        /\ LET e == PostLookupRules(req[p].callerRole, getUserByEmail(users, req[p].email),
                                    req[p].newRole) IN
             IF e # OK THEN Finish(p, Thrown(e)) ELSE Goto(p, "curResolve")
     \/ /\ UNCHANGED targetUser
        /\ Finish(p, Thrown("DB_ERROR"))

\* step 3: UserSyncService.validateUserExists; every failure inside it
\* (token, transport, no match) surfaces as the same not-found error.
CurResolve(p) ==
  /\ pc[p] = "curResolve"
  /\ calls' = Graph(p)
  /\ UNCHANGED <<users, grants, req, targetUser, attempt, pending, auditBy>>
  /\ \/ /\ req[p].configured
        /\ ResolveAccount(req[p].email) # Null
        /\ Goto(p, "curToken")
     \/ Finish(p, Thrown("USER_NOT_FOUND_IN_AZURE_AD"))

\* A changeUserRole that goes from the token to the table without clearing.
CurToken_NoClear(p) ==
  /\ pc[p] = "curToken"
  /\ calls' = Graph(p)
  /\ UNCHANGED <<users, grants, req, targetUser, attempt, pending, auditBy>>
  /\ \/ /\ req[p].configured
        /\ IF req[p].op = "changeUserRole" /\ req[p].newRole # Null
           THEN Goto(p, "curDisplayName") ELSE Goto(p, "clearList")
     \/ Finish(p, Thrown(TokenError(p)))

\* step 4: getGraphToken and getServicePrincipalObjectId.
CurToken(p) ==
  /\ pc[p] = "curToken"
  /\ calls' = Graph(p)
  /\ UNCHANGED <<users, grants, req, targetUser, attempt, pending, auditBy>>
  /\ \/ /\ req[p].configured
        /\ Goto(p, "clearList")
     \/ Finish(p, Thrown(TokenError(p)))

\* The directory principal whose assignments the slot's invocation works on
\* (Null: an object id that names no directory account).
Principal(p) ==
  IF req[p].op = "deleteSuperAdmin" THEN OwnerOfOid(req[p].email)
  ELSE IF req[p].op = "bulkAssignRole" THEN ResolveAccount(req[p].email[attempt[p]])
  ELSE ResolveAccount(req[p].email)

GrantsOf(pr) == IF pr \in DOMAIN grants THEN grants[pr] ELSE {}

\* GET servicePrincipals/{sp}/appRoleAssignedTo: every assignment on the
\* service principal, as <<principalId, app role>>.
appRoleAssignedTo == {a \in (DOMAIN grants) \X Roles : a[2] \in grants[a[1]]}

\* The listing without the filter on principalId.
ClearPage_NoFilter(principalId) == appRoleAssignedTo

\* The assignments that the loop of removeAllAppRolesFromPrincipalOnSp keeps:
\* `if (a.principalId !== principalId) continue`.
ClearPage(principalId) == {a \in appRoleAssignedTo : a[1] = principalId}

\* The removal branch without its `if (targetUser)`: the delete is always issued.
AfterClear_AlwaysDelete(p) ==
  IF req[p].op = "changeUserRole"
  THEN IF req[p].newRole = Null THEN Goto(p, "curDelete") ELSE Goto(p, "curDisplayName")
  ELSE Goto(p, "adAssign")

\* What follows a completed removeAllAppRolesFromPrincipalOnSp in the caller.
AfterClear(p) ==
  IF req[p].op = "changeUserRole"
  THEN IF req[p].newRole = Null
       THEN IF targetUser[p] # Null
            THEN Goto(p, "curDelete")
            ELSE Finish(p, Returned("SUCCESS", Null, Null, TRUE, FALSE))
       ELSE Goto(p, "curDisplayName")
  ELSE Goto(p, "adAssign")

\* removeAllAppRolesFromPrincipalOnSp: list the assignments on the service
\* principal and keep those of the principal.
ClearList(p) ==
  /\ pc[p] = "clearList"
  /\ calls' = Graph(p)
  /\ UNCHANGED <<users, grants, req, targetUser, attempt, auditBy>>
  /\ \/ IF ClearPage(Principal(p)) = {}
        THEN /\ UNCHANGED pending
             /\ AfterClear(p)
        ELSE /\ pending' = [pending EXCEPT ![p] = [page |-> ClearPage(Principal(p)),
                                                   removed |-> {}]]
             /\ Goto(p, "clearDelete")
     \/ /\ UNCHANGED pending
        /\ Finish(p, Thrown("GRAPH_ERROR"))

\* removeAllAppRolesFromPrincipalOnSp: delete the next listed assignment; a
\* failed delete (also of an assignment that is already gone) aborts the
\* clear, whatever was deleted before it.  The locals are dropped when the
\* clear returns.
ClearDelete(p) ==
  /\ pc[p] = "clearDelete"
  /\ calls' = Graph(p)
  /\ UNCHANGED <<users, req, targetUser, attempt, auditBy>>
  /\ \E g \in pending[p].page \ pending[p].removed :
       \/ /\ g \in appRoleAssignedTo
          /\ grants' = [grants EXCEPT ![g[1]] = @ \ {g[2]}]
          /\ IF pending[p].page = pending[p].removed \cup {g}
             THEN /\ pending' = [pending EXCEPT ![p] = NoPending]
                  /\ AfterClear(p)
             ELSE /\ pending' = [pending EXCEPT ![p].removed = @ \cup {g}]
                  /\ Goto(p, "clearDelete")
       \/ /\ UNCHANGED <<grants, pending>>
          /\ Finish(p, Thrown("GRAPH_ERROR"))

\* step 6, removal: deleteUserByEmail when a row was found.
CurDelete(p) ==
  /\ pc[p] = "curDelete"
  /\ calls' = Db(p)
  /\ UNCHANGED <<grants, req, targetUser, attempt, pending, auditBy>>
  /\ \/ /\ users' = deleteUserByEmail(users, req[p].email)
        /\ Goto(p, "curAuditDelete")
     \/ /\ UNCHANGED users
        /\ Finish(p, Thrown("DB_ERROR"))

\* step 6, removal: logAudit(DELETE) and the SUCCESS result.
CurAuditDelete(p) ==
  /\ pc[p] = "curAuditDelete"
  /\ calls' = Db(p)
  /\ UNCHANGED <<users, grants, req, targetUser, attempt, pending>>
  /\ \/ /\ auditBy' = [auditBy EXCEPT ![p] =
                         Append(@, AuditEntry("DELETE", Target(p), targetUser[p], Null))]
        /\ Finish(p, Returned("SUCCESS", targetUser[p], Null, TRUE, FALSE))
     \/ /\ UNCHANGED auditBy
        /\ Finish(p, Thrown("DB_ERROR"))

\* step 7: getUserDisplayName (its failure is swallowed).
CurDisplayName(p) ==
  /\ pc[p] = "curDisplayName"
  /\ calls' = Graph(p)
  /\ UNCHANGED <<users, grants, req, targetUser, attempt, pending, auditBy>>
  /\ Goto(p, "curUpsert")

\* step 7: upsertUserRole with the requested role.
CurUpsert(p) ==
  /\ pc[p] = "curUpsert"
  /\ calls' = Db(p)
  /\ UNCHANGED <<grants, req, targetUser, pending, auditBy>>
  /\ \/ /\ users' = upsertUserRole(users, req[p].email, req[p].newRole)
        /\ attempt' = [attempt EXCEPT ![p] = 1]
        /\ Goto(p, "curAssign")
     \/ /\ UNCHANGED <<users, attempt>>
        /\ Finish(p, Thrown("DB_ERROR"))

\* A loop whose exhaustion is taken for a success by the caller.
AfterFailedAttempt_NoRollback(p) ==
  IF attempt[p] = MAX_RETRIES THEN Goto(p, "curAudit") ELSE Goto(p, "curWait")

\* A loop that gives up after its first failed attempt.
AfterFailedAttempt_GiveUp(p) == Goto(p, "curRollback")

\* What follows a failed attempt of updateAzureADWithRetry.
AfterFailedAttempt(p) ==
  IF attempt[p] = MAX_RETRIES THEN Goto(p, "curRollback") ELSE Goto(p, "curWait")

\* step 8: one attempt of assignAppRoleToPrincipal.  The directory rejects a
\* request without an app-role id; a request may also take effect although
\* the client sees a failure.
CurAssign(p) ==
  /\ pc[p] = "curAssign"
  /\ calls' = Graph(p)
  /\ UNCHANGED <<users, req, targetUser, attempt, pending, auditBy>>
  /\ LET roleId == roleIdMap(req[p].newRole) IN
     \/ /\ roleId # Undefined
        /\ grants' = [grants EXCEPT ![Principal(p)] = @ \cup {roleId}]
        /\ \/ Goto(p, "curAudit")
           \/ AfterFailedAttempt(p)
     \/ /\ UNCHANGED grants
        /\ AfterFailedAttempt(p)

\* A wait whose timer never fires.
CurWait_NeverResolves(p) ==
  /\ pc[p] = "curWait"
  /\ UNCHANGED vars

\* step 8: the wait of 1000 * attempt ms before the next attempt.
CurWait(p) ==
  /\ pc[p] = "curWait"
  /\ attempt' = [attempt EXCEPT ![p] = @ + 1]
  /\ UNCHANGED <<users, grants, req, targetUser, pending, calls, auditBy>>
  /\ Goto(p, "curAssign")

\* A rollback that always deletes the row, whether or not one existed before.
CurRollback_AlwaysDelete(p) ==
  /\ pc[p] = "curRollback"
  /\ calls' = Db(p)
  /\ UNCHANGED <<grants, req, targetUser, attempt, pending, auditBy>>
  /\ \/ /\ users' = deleteUserByEmail(users, req[p].email)
        /\ Finish(p, Returned("ROLLBACK_REQUIRED", targetUser[p], req[p].newRole, FALSE, TRUE))
     \/ /\ UNCHANGED users
        /\ Finish(p, Thrown("DB_ERROR"))

\* A rollback whose result still reports azureADUpdated.
CurRollback_ReportsUpdated(p) ==
  /\ pc[p] = "curRollback"
  /\ calls' = Db(p)
  /\ UNCHANGED <<grants, req, targetUser, attempt, pending, auditBy>>
  /\ \/ /\ users' = IF targetUser[p] # Null
                     THEN upsertUserRole(users, req[p].email, targetUser[p])
                     ELSE deleteUserByEmail(users, req[p].email)
        /\ Finish(p, Returned("ROLLBACK_REQUIRED", targetUser[p], req[p].newRole, TRUE, TRUE))
     \/ /\ UNCHANGED users
        /\ Finish(p, Thrown("DB_ERROR"))

\* step 9: roll the table back (previous role, or delete the new row) and
\* return ROLLBACK_REQUIRED.
CurRollback(p) ==
  /\ pc[p] = "curRollback"
  /\ calls' = Db(p)
  /\ UNCHANGED <<grants, req, targetUser, attempt, pending, auditBy>>
  /\ \/ /\ users' = IF targetUser[p] # Null
                     THEN upsertUserRole(users, req[p].email, targetUser[p])
                     ELSE deleteUserByEmail(users, req[p].email)
        /\ Finish(p, Returned("ROLLBACK_REQUIRED", targetUser[p], req[p].newRole, FALSE, TRUE))
     \/ /\ UNCHANGED users
        /\ Finish(p, Thrown("DB_ERROR"))

\* step 10: logAudit(ROLE_CHANGE).
CurAudit(p) ==
  /\ pc[p] = "curAudit"
  /\ calls' = Db(p)
  /\ UNCHANGED <<users, grants, req, targetUser, attempt, pending>>
  /\ \/ /\ auditBy' = [auditBy EXCEPT ![p] =
                         Append(@, AuditEntry("ROLE_CHANGE", Target(p), targetUser[p],
                                              req[p].newRole))]
        /\ Goto(p, "curOffline")
     \/ /\ UNCHANGED auditBy
        /\ Finish(p, Thrown("DB_ERROR"))

\* step 11: setUserOffline and the SUCCESS result.
CurOffline(p) ==
  /\ pc[p] = "curOffline"
  /\ calls' = Db(p)
  /\ UNCHANGED <<users, grants, req, targetUser, attempt, pending, auditBy>>
  /\ \/ Finish(p, Returned("SUCCESS", targetUser[p], req[p].newRole, TRUE, FALSE))
     \/ Finish(p, Thrown("PRESENCE_ERROR"))

\* ------------------------------- createContactManager / createSuperAdmin
\* step 1 of both services: the rules that need no I/O (the caller exists,
\* the e-mail is well formed).
UmStart(p, op, caller, email) ==
  /\ Begin(p, op, caller, email,
           IF op = "createContactManager" THEN "ContactManager" ELSE "SuperAdmin")
  /\ LET e == FirstError(<<validateCallerExists(caller \in deletedAt),
                           IF op = "createContactManager"
                           THEN validateContactManagerCreationPermissions(users[caller])
                           ELSE validateSuperAdminCreationPermissions(users[caller]),
                           validateNotSelfCreation(caller, email)>>) IN
       IF e # OK THEN Finish(p, Thrown(e)) ELSE Goto(p, "umLookup")

\* step 2: getUserByEmail and validateUserNotAlreadyHasRole.
UmLookup(p) ==
  /\ pc[p] = "umLookup"
  /\ calls' = Db(p)
  /\ UNCHANGED <<users, grants, req, attempt, pending, auditBy>>
  /\ \/ /\ targetUser' = [targetUser EXCEPT ![p] = repoGetUserByEmail(users, req[p].email)]
        /\ LET e == validateUserNotAlreadyHasRole(repoGetUserByEmail(users, req[p].email),
                                                  req[p].newRole) IN
             IF e # OK THEN Finish(p, Thrown(e)) ELSE Goto(p, "umFind")
     \/ /\ UNCHANGED targetUser
        /\ Finish(p, Thrown("DB_ERROR"))

\* step 3, findOrCreateUserFromGraph: the row if there is one.
UmFind(p) ==
  /\ pc[p] = "umFind"
  /\ calls' = Db(p)
  /\ UNCHANGED <<users, grants, req, targetUser, attempt, pending, auditBy>>
  /\ \/ IF repoGetUserByEmail(users, req[p].email) # Null
        THEN Goto(p, "adToken") ELSE Goto(p, "umFetch")
     \/ Finish(p, Thrown("DB_ERROR"))

\* step 3, findOrCreateUserFromGraph: token and fetchAllUsers.
UmFetch(p) ==
  /\ pc[p] = "umFetch"
  /\ calls' = Graph(p)
  /\ UNCHANGED <<users, grants, req, targetUser, attempt, pending, auditBy>>
  /\ \/ /\ req[p].configured
        /\ IF ResolveAccount(req[p].email) # Null
           THEN Goto(p, "umCreate") ELSE Finish(p, Thrown("USER_NOT_FOUND_IN_AZURE_AD"))
     \/ Finish(p, Thrown(TokenError(p)))

\* step 3, findOrCreateUserFromGraph: create the row, with the new role.
UmCreate(p) ==
  /\ pc[p] = "umCreate"
  /\ calls' = Db(p)
  /\ UNCHANGED <<grants, req, targetUser, attempt, pending, auditBy>>
  /\ \/ /\ users[Target(p)] = Null
        /\ users' = [users EXCEPT ![Target(p)] = req[p].newRole]
        /\ Goto(p, "adToken")
     \/ /\ UNCHANGED users
        /\ Finish(p, Thrown("DB_ERROR"))

\* assignAzureADRole: getGraphToken and the app-role id of the role.
AdToken(p) ==
  /\ pc[p] = "adToken"
  /\ calls' = Graph(p)
  /\ UNCHANGED <<users, grants, req, targetUser, attempt, pending, auditBy>>
  /\ \/ /\ req[p].configured
        /\ IF adRoleIdMap(req[p].newRole) = Undefined
           THEN Finish(p, Thrown("NO_APP_ROLE_ID")) ELSE Goto(p, "clearList")
     \/ Finish(p, Thrown(TokenError(p)))

\* What follows assignAzureADRole in the caller.
AfterAdAssign(p) ==
  IF req[p].op = "deleteSuperAdmin" THEN Goto(p, "dsDelete") ELSE Goto(p, "umUpdate")

\* assignAzureADRole: assignAppRoleToPrincipal, a single attempt.
AdAssign(p) ==
  /\ pc[p] = "adAssign"
  /\ calls' = Graph(p)
  /\ UNCHANGED <<users, req, targetUser, attempt, pending, auditBy>>
  /\ \/ /\ grants' = [grants EXCEPT ![Principal(p)] = @ \cup {adRoleIdMap(req[p].newRole)}]
        /\ \/ AfterAdAssign(p)
           \/ Finish(p, Thrown("GRAPH_ERROR"))
     \/ /\ UNCHANGED grants
        /\ Finish(p, Thrown("GRAPH_ERROR"))

\* step 5: updateUserRole (an update of a row that is gone throws).
UmUpdate(p) ==
  /\ pc[p] = "umUpdate"
  /\ calls' = Db(p)
  /\ UNCHANGED <<grants, req, targetUser, attempt, pending, auditBy>>
  /\ \/ /\ users[Target(p)] # Null
        /\ users' = [users EXCEPT ![Target(p)] = req[p].newRole]
        /\ IF req[p].op = "createContactManager"
           THEN Goto(p, "cmProfile") ELSE Goto(p, "umAudit")
     \/ /\ UNCHANGED users
        /\ Finish(p, Thrown("DB_ERROR"))

\* createContactManager step 6: createContactManagerProfile.
CmProfile(p) ==
  /\ pc[p] = "cmProfile"
  /\ calls' = Db(p)
  /\ UNCHANGED <<users, grants, req, targetUser, attempt, pending, auditBy>>
  /\ \/ Goto(p, "umAudit")
     \/ Finish(p, Thrown("DB_ERROR"))

\* last step: logAudit(CREATE) and the result.
UmAudit(p) ==
  /\ pc[p] = "umAudit"
  /\ calls' = Db(p)
  /\ UNCHANGED <<users, grants, req, targetUser, attempt, pending>>
  /\ \/ /\ auditBy' = [auditBy EXCEPT ![p] =
                         Append(@, AuditEntry("CREATE", Target(p), targetUser[p],
                                              req[p].newRole))]
        /\ Finish(p, ReturnedMsg(IF req[p].op = "createContactManager"
                                 THEN "CONTACT_MANAGER_CREATED" ELSE "SUPER_ADMIN_CREATED"))
     \/ /\ UNCHANGED auditBy
        /\ Finish(p, Thrown("DB_ERROR"))

\* -------------------------------------------------------- deleteSuperAdmin
\* step 1: the rules that need no I/O.
DsStart(p, caller, userId) ==
  /\ Begin(p, "deleteSuperAdmin", caller, userId, "SuperAdmin")
  /\ LET e == FirstError(<<validateCallerExists(caller \in deletedAt),
                           validateSuperAdminDeletionPermissions(users[caller]),
                           validateNotSelfDeletion(RowId(caller), userId)>>) IN
       IF e # OK THEN Finish(p, Thrown(e)) ELSE Goto(p, "dsLookup")

\* step 2: getUserByAzureAdObjectId and validateSuperAdminExists.
DsLookup(p) ==
  /\ pc[p] = "dsLookup"
  /\ calls' = Db(p)
  /\ UNCHANGED <<users, grants, req, attempt, pending, auditBy>>
  /\ \/ LET row == getUserByAzureAdObjectId(users, req[p].email) IN
          IF validateSuperAdminExists(row) # OK
          THEN /\ UNCHANGED targetUser
               /\ Finish(p, Thrown(validateSuperAdminExists(row)))
          ELSE /\ targetUser' = [targetUser EXCEPT ![p] = users[row]]
               /\ Goto(p, "dsCount")
     \/ /\ UNCHANGED targetUser
        /\ Finish(p, Thrown("DB_ERROR"))

\* step 3: countSuperAdmins and validateNotLastSuperAdmin.
DsCount(p) ==
  /\ pc[p] = "dsCount"
  /\ calls' = Db(p)
  /\ UNCHANGED <<users, grants, req, targetUser, attempt, pending, auditBy>>
  /\ \/ LET e == validateNotLastSuperAdmin(countSuperAdmins(users)) IN
          IF e # OK THEN Finish(p, Thrown(e)) ELSE Goto(p, "adToken")
     \/ Finish(p, Thrown("DB_ERROR"))

\* step 5: delete the row (a delete of a row that is gone throws).
DsDelete(p) ==
  /\ pc[p] = "dsDelete"
  /\ calls' = Db(p)
  /\ UNCHANGED <<grants, req, targetUser, attempt, pending, auditBy>>
  /\ \/ /\ users[Target(p)] # Null
        /\ users' = [users EXCEPT ![Target(p)] = Null]
        /\ Goto(p, "dsAudit")
     \/ /\ UNCHANGED users
        /\ Finish(p, Thrown("DB_ERROR"))

\* step 6: logAudit(DELETE) and the result.
DsAudit(p) ==
  /\ pc[p] = "dsAudit"
  /\ calls' = Db(p)
  /\ UNCHANGED <<users, grants, req, targetUser, attempt, pending>>
  /\ \/ /\ auditBy' = [auditBy EXCEPT ![p] =
                         Append(@, AuditEntry("DELETE", Target(p), targetUser[p], Null))]
        /\ Finish(p, ReturnedMsg("SUPER_ADMIN_DELETED"))
     \/ /\ UNCHANGED auditBy
        /\ Finish(p, Thrown("DB_ERROR"))

\* ---------------------------------------------------------- bulkAssignRole
\* Entry of UserRoleManagementService.bulkAssignRole(userEmails, roleId); the
\* running successCount is carried in the status of the result.
BaStart(p, userEmails, roleId) ==
  /\ Idle(p)
  /\ req' = [req EXCEPT ![p] = [op |-> "bulkAssignRole", caller |-> Null,
                                callerRole |-> Null, email |-> userEmails,
                                newRole |-> roleId, configured |-> TRUE, cancelled |-> FALSE]]
  /\ targetUser' = [targetUser EXCEPT ![p] = Null]
  /\ attempt' = [attempt EXCEPT ![p] = 1]
  /\ pending' = [pending EXCEPT ![p] = NoPending]
  /\ calls' = [calls EXCEPT ![p] = NoCalls]
  /\ auditBy' = [auditBy EXCEPT ![p] = <<>>]
  /\ pc' = [pc EXCEPT ![p] = "baToken"]
  /\ result' = [result EXCEPT ![p] = [NoResult EXCEPT !.status = 0]]
  /\ UNCHANGED <<users, grants, deletedAt>>

\* getGraphToken and getServicePrincipalObjectId, outside the loop: their
\* failure is thrown to the caller.
BaToken(p) ==
  /\ pc[p] = "baToken"
  /\ calls' = Graph(p)
  /\ UNCHANGED <<users, grants, req, targetUser, attempt, pending, auditBy>>
  /\ \/ /\ req[p].configured
        /\ Goto(p, "baResolve")
     \/ Finish(p, Thrown(TokenError(p)))

\* The loop moves to the next e-mail, or returns successCount after the last.
BaNext(p, count) ==
  IF attempt[p] = Len(req[p].email)
  THEN /\ Finish(p, ReturnedMsg(count))
       /\ UNCHANGED attempt
  ELSE /\ attempt' = [attempt EXCEPT ![p] = @ + 1]
       /\ pc' = [pc EXCEPT ![p] = "baResolve"]
       /\ result' = [result EXCEPT ![p].status = count]
       /\ UNCHANGED deletedAt

\* getUserAzureAdId of the current e-mail; a failure is caught and logged.
BaResolve(p) ==
  /\ pc[p] = "baResolve"
  /\ calls' = Graph(p)
  /\ UNCHANGED <<users, grants, req, targetUser, pending, auditBy>>
  /\ \/ /\ Principal(p) # Null
        /\ Goto(p, "baAssign")
        /\ UNCHANGED attempt
     \/ BaNext(p, result[p].status)

\* assignRoleToUser: one POST of the app-role assignment, nothing cleared
\* before it; a failure is caught and logged.
BaAssign(p) ==
  /\ pc[p] = "baAssign"
  /\ calls' = Graph(p)
  /\ UNCHANGED <<users, req, targetUser, pending, auditBy>>
  /\ \/ /\ grants' = [grants EXCEPT ![Principal(p)] = @ \cup {req[p].newRole}]
        /\ \/ BaNext(p, result[p].status + 1)
           \/ BaNext(p, result[p].status)
     \/ /\ UNCHANGED grants
        /\ BaNext(p, result[p].status)

BulkAssignRoleStep(p) == BaToken(p) \/ BaResolve(p) \/ BaAssign(p)

\* ------------------------------------------- removeAllAppRolesFromUser
\* What one GET of a collection may carry in `value`: the whole collection,
\* or a first page of it with the rest behind `@odata.nextLink`.
FirstPages(all) == IF all = {} THEN {{}} ELSE (SUBSET all) \ {{}}

\* UserRoleManagementService.removeAllAppRolesFromUser(token, sp, userObjectId).
RuStart(p, userObjectId) ==
  /\ Idle(p)
  /\ req' = [req EXCEPT ![p] = [op |-> "removeAllAppRolesFromUser", caller |-> Null,
                                callerRole |-> Null, email |-> userObjectId,
                                newRole |-> Null, configured |-> TRUE, cancelled |-> FALSE]]
  /\ targetUser' = [targetUser EXCEPT ![p] = Null]
  /\ attempt' = [attempt EXCEPT ![p] = 0]
  /\ pending' = [pending EXCEPT ![p] = NoPending]
  /\ calls' = [calls EXCEPT ![p] = NoCalls]
  /\ auditBy' = [auditBy EXCEPT ![p] = <<>>]
  /\ pc' = [pc EXCEPT ![p] = "ruList"]
  /\ result' = [result EXCEPT ![p] = NoResult]
  /\ UNCHANGED <<users, grants, deletedAt>>

\* The one GET of the user's appRoleAssignments on the service principal:
\* `assignments = resp.data?.value || []`; a failure is rethrown.
RuList(p) ==
  /\ pc[p] = "ruList"
  /\ calls' = Graph(p)
  /\ UNCHANGED <<users, grants, req, targetUser, attempt, auditBy>>
  /\ \/ \E value \in FirstPages(ClearPage(Principal(p))) :
          IF value = {}
          THEN /\ UNCHANGED pending
               /\ Finish(p, ReturnedMsg(Undefined))
          ELSE /\ pending' = [pending EXCEPT ![p] = [page |-> value, removed |-> {}]]
               /\ Goto(p, "ruDelete")
     \/ /\ UNCHANGED pending
        /\ Finish(p, Thrown("GRAPH_ERROR"))

\* The loop over `assignments`: delete the next one; a failed delete is
\* rethrown.
RuDelete(p) ==
  /\ pc[p] = "ruDelete"
  /\ calls' = Graph(p)
  /\ UNCHANGED <<users, req, targetUser, attempt, auditBy>>
  /\ \E g \in pending[p].page \ pending[p].removed :
       \/ /\ g \in appRoleAssignedTo
          /\ grants' = [grants EXCEPT ![g[1]] = @ \ {g[2]}]
          /\ IF pending[p].page = pending[p].removed \cup {g}
             THEN /\ pending' = [pending EXCEPT ![p] = NoPending]
                  /\ Finish(p, ReturnedMsg(Undefined))
             ELSE /\ pending' = [pending EXCEPT ![p].removed = @ \cup {g}]
                  /\ Goto(p, "ruDelete")
       \/ /\ UNCHANGED <<grants, pending>>
          /\ Finish(p, Thrown("GRAPH_ERROR"))

\* ------------------------------------------- changeSupervisorAssignments
\* UserRepository.findByEmail: findUnique on the lower-cased e-mail.
findByEmail(u, email) ==
  IF toLowerCase(email) \in DOMAIN u THEN u[toLowerCase(email)] ELSE Null

\* ChangeSupervisorRepository.validateSupervisor and
\* validateSupervisorSelfAssignment, on the row found for the supervisor.
validateSupervisor(supervisorEmail, callerEmail) ==
  IF supervisorEmail = Null THEN OK
  ELSE IF findByEmail(users, supervisorEmail) = Null
          \/ toLowerCase(supervisorEmail) \in deletedAt THEN "SUPERVISOR_NOT_FOUND"
  ELSE IF findByEmail(users, supervisorEmail) # "Supervisor" THEN "TARGET_NOT_SUPERVISOR"
  ELSE IF RowId(toLowerCase(supervisorEmail)) = RowId(callerEmail)
       THEN "SUPERVISOR_CANNOT_ASSIGN_SELF"
  ELSE OK

\* A loop that skips nobody.
SkipExisting_Never(existing) == FALSE

\* `existing && existing.role && existing.role !== UserRole.Employee`.
SkipExisting(existing) == existing # Null /\ existing # "Employee"

\* The status that changeSupervisorAssignments derives from its two counts.
ChangeSupervisorStatus(updatedCount, skippedCount) ==
  IF skippedCount = 0 THEN "SUCCESS"
  ELSE IF updatedCount > 0 THEN "PARTIAL_SUCCESS" ELSE "FAILED"

\* The result under construction: the counts and the two lists of details.
CsCounts(updatedCount, skippedCount, updated, skipped) ==
  [kind |-> "none", status |-> Undefined, error |-> Undefined,
   updatedCount |-> updatedCount, skippedCount |-> skippedCount,
   updated |-> updated, skipped |-> skipped]

\* The loop moves to the next e-mail, or returns after the last one.
CsNext(p, r) ==
  /\ UNCHANGED deletedAt
  /\ IF attempt[p] >= Len(req[p].email)
     THEN /\ pc' = [pc EXCEPT ![p] = "done"]
          /\ result' = [result EXCEPT ![p] =
               [r EXCEPT !.kind = "returned",
                         !.status = ChangeSupervisorStatus(r.updatedCount, r.skippedCount)]]
          /\ UNCHANGED attempt
     ELSE /\ pc' = [pc EXCEPT ![p] = "csFind"]
          /\ result' = [result EXCEPT ![p] = r]
          /\ attempt' = [attempt EXCEPT ![p] = @ + 1]

\* `skipped.push(...); skippedCount++`, then the next e-mail.
CsSkip(p) ==
  CsNext(p, [result[p] EXCEPT !.skippedCount = @ + 1,
                              !.skipped = Append(@, req[p].email[attempt[p]])])

\* Entry of ChangeSupervisorService.changeSupervisorAssignments(request,
\* currentUser).
CsStart(p, caller, userEmails, newSupervisorEmail) ==
  /\ Idle(p)
  /\ users[caller] # Null
  /\ req' = [req EXCEPT ![p] = [op |-> "changeSupervisorAssignments", caller |-> caller,
                                callerRole |-> users[caller], email |-> userEmails,
                                newRole |-> "Employee", configured |-> TRUE,
                                cancelled |-> FALSE,
                                newSupervisorEmail |-> newSupervisorEmail]]
  /\ targetUser' = [targetUser EXCEPT ![p] = Null]
  /\ attempt' = [attempt EXCEPT ![p] = 0]
  /\ pending' = [pending EXCEPT ![p] = NoPending]
  /\ calls' = [calls EXCEPT ![p] = NoCalls]
  /\ auditBy' = [auditBy EXCEPT ![p] = <<>>]
  /\ pc' = [pc EXCEPT ![p] = "csValidate"]
  /\ result' = [result EXCEPT ![p] = CsCounts(0, 0, <<>>, <<>>)]
  /\ UNCHANGED <<users, grants, deletedAt>>

\* validateSupervisor (a read of the supervisor's row unless the e-mail is
\* null) and validateSupervisorSelfAssignment: their errors are thrown.
CsValidate(p) ==
  /\ pc[p] = "csValidate"
  /\ calls' = IF req[p].newSupervisorEmail = Null THEN calls ELSE Db(p)
  /\ UNCHANGED <<users, grants, req, targetUser, pending, auditBy>>
  /\ \/ LET e == validateSupervisor(req[p].newSupervisorEmail, req[p].caller) IN
          IF e # OK
          THEN /\ Finish(p, Thrown(e))
               /\ UNCHANGED attempt
          ELSE CsNext(p, result[p])
     \/ /\ req[p].newSupervisorEmail # Null
        /\ Finish(p, Thrown("DB_ERROR"))
        /\ UNCHANGED attempt

\* findByEmail of the current e-mail and the skip of a user whose role is not
\* Employee; an error is caught and counted as a skip.
CsFind(p) ==
  /\ pc[p] = "csFind"
  /\ calls' = Db(p)
  /\ UNCHANGED <<users, grants, req, pending, auditBy>>
  /\ LET existing == findByEmail(users, req[p].email[attempt[p]]) IN
     \/ IF SkipExisting(existing)
        THEN /\ UNCHANGED targetUser
             /\ CsSkip(p)
        ELSE /\ targetUser' = [targetUser EXCEPT ![p] = existing]
             /\ pc' = [pc EXCEPT ![p] = IF existing # Null THEN "csSupervisor"
                                        ELSE "csUpsert"]
             /\ UNCHANGED <<result, attempt, deletedAt>>
     \/ /\ UNCHANGED targetUser
        /\ CsSkip(p)

\* getCurrentSupervisor of an existing user.
CsSupervisor(p) ==
  /\ pc[p] = "csSupervisor"
  /\ calls' = Db(p)
  /\ UNCHANGED <<users, grants, req, targetUser, pending, auditBy>>
  /\ \/ /\ pc' = [pc EXCEPT ![p] = "csUpsert"]
        /\ UNCHANGED <<result, attempt, deletedAt>>
     \/ CsSkip(p)

\* upsertUserRole(email, oid, fullName, Employee, supervisor id).
CsUpsert(p) ==
  /\ pc[p] = "csUpsert"
  /\ calls' = Db(p)
  /\ UNCHANGED <<grants, req, targetUser, pending, auditBy>>
  /\ \/ /\ users' = upsertUserRole(users, req[p].email[attempt[p]], "Employee")
        /\ pc' = [pc EXCEPT ![p] = "csAudit"]
        /\ UNCHANGED <<result, attempt, deletedAt>>
     \/ /\ UNCHANGED users
        /\ CsSkip(p)

\* logAudit(SUPERVISOR_CHANGE), then `updated.push(email); updatedCount++`; a
\* failed audit write is caught and counted as a skip.
CsAudit(p) ==
  /\ pc[p] = "csAudit"
  /\ calls' = Db(p)
  /\ UNCHANGED <<users, grants, req, targetUser, pending>>
  /\ \/ /\ auditBy' = [auditBy EXCEPT ![p] =
                         Append(@, AuditEntry("SUPERVISOR_CHANGE", Target(p), Null,
                                              req[p].newSupervisorEmail))]
        /\ CsNext(p, [result[p] EXCEPT !.updatedCount = @ + 1,
                                       !.updated = Append(@, req[p].email[attempt[p]])])
     \/ /\ UNCHANGED auditBy
        /\ CsSkip(p)

ChangeSupervisorStep(p) ==
  CsValidate(p) \/ CsFind(p) \/ CsSupervisor(p) \/ CsUpsert(p) \/ CsAudit(p)

\* ------------------------------------------------------------------ Next
ChangeUserRoleStep(p) ==
  \/ CurLookup(p) \/ CurResolve(p) \/ CurToken(p)
  \/ ClearList(p) \/ ClearDelete(p)
  \/ CurDelete(p) \/ CurAuditDelete(p)
  \/ CurDisplayName(p) \/ CurUpsert(p) \/ CurAssign(p) \/ CurWait(p)
  \/ CurRollback(p) \/ CurAudit(p) \/ CurOffline(p)

CreateUserStep(p) ==
  \/ UmLookup(p) \/ UmFind(p) \/ UmFetch(p) \/ UmCreate(p)
  \/ UmUpdate(p) \/ CmProfile(p) \/ UmAudit(p)

AssignAzureADRoleStep(p) == AdToken(p) \/ AdAssign(p)

DeleteSuperAdminStep(p) == DsLookup(p) \/ DsCount(p) \/ DsDelete(p) \/ DsAudit(p)

\* The role synchronization engine alone: changeUserRole invocations, one at
\* a time.
Next ==
  \/ \E caller \in Callers, email \in RequestEmails, newRole \in Roles \cup {Null} :
       CurStart("r1", caller, email, newRole)
  \/ ChangeUserRoleStep("r1")

Spec == Init /\ [][Next]_vars

\* Every role-mutating service, one invocation at a time.
NextAll ==
  \/ \E caller \in Callers, email \in RequestEmails, newRole \in Roles \cup {Null} :
       CurStart("r1", caller, email, newRole)
  \/ \E caller \in Callers, email \in RequestEmails :
       \/ UmStart("r1", "createContactManager", caller, email)
       \/ UmStart("r1", "createSuperAdmin", caller, email)
  \/ \E caller \in Callers, userId \in UserIds : DsStart("r1", caller, userId)
  \/ ChangeUserRoleStep("r1")
  \/ CreateUserStep("r1")
  \/ AssignAzureADRoleStep("r1")
  \/ DeleteSuperAdminStep("r1")

SpecAll == Init /\ [][NextAll]_vars

\* Two requests in flight at once: each slot runs one invocation, either a
\* changeUserRole by "a@x" on "b@x" or a deleteSuperAdmin by either account.
ConcRoles == {"Admin", "Supervisor", Null}

ConcInit ==
  /\ users \in {u \in InitUsers : u["a@x"] = "SuperAdmin" /\ u["b@x"] \in {"SuperAdmin", "Employee"}}
  /\ grants = ConsistentGrants(users)
  /\ deletedAt = {}
  /\ InitSlots

ConcNext ==
  \E p \in Procs :
    \/ /\ pc[p] = "idle"
       /\ \E newRole \in ConcRoles : CurStart(p, "a@x", "b@x", newRole)
    \/ /\ pc[p] = "idle"
       /\ \E caller \in DirAccounts, userId \in ObjectIds : DsStart(p, caller, userId)
    \/ ChangeUserRoleStep(p)
    \/ AssignAzureADRoleStep(p)
    \/ DeleteSuperAdminStep(p)

SpecConc == ConcInit /\ [][ConcNext]_vars

\* The directory side: changeUserRole and createContactManager by the Admin
\* "a@x" on "b@x", and bulkAssignRole, one invocation at a time.
BulkEmailLists == {<<"b@x">>, <<"c@x", "b@x">>}

BulkRoleIds == {"Employee", "Supervisor"}

BulkInit ==
  /\ users \in {u \in InitUsers : u["a@x"] = "Admin" /\ u["b@x"] \in {"Employee", Null}}
  /\ grants = ConsistentGrants(users)
  /\ deletedAt = {}
  /\ InitSlots

BulkNext ==
  \/ \E newRole \in {"Supervisor", Null} : CurStart("r1", "a@x", "b@x", newRole)
  \/ UmStart("r1", "createContactManager", "a@x", "b@x")
  \/ \E userEmails \in BulkEmailLists, roleId \in BulkRoleIds :
       BaStart("r1", userEmails, roleId)
  \/ ChangeUserRoleStep("r1")
  \/ CreateUserStep("r1")
  \/ AssignAzureADRoleStep("r1")
  \/ BulkAssignRoleStep("r1")

SpecBulk == BulkInit /\ [][BulkNext]_vars

\* The directory side with the second clear, removeAllAppRolesFromUser.
PageNext ==
  \/ BulkNext
  \/ \E userObjectId \in DirAccounts : RuStart("r1", userObjectId)
  \/ RuList("r1")
  \/ RuDelete("r1")

SpecPage == BulkInit /\ [][PageNext]_vars

\* changeUserRole by the Admin "a@x" in a process with or without its
\* directory configuration.
CfgInit ==
  /\ users \in {u \in InitUsers : u["a@x"] = "Admin" /\ u["b@x"] \in {"Employee", Null}}
  /\ grants = ConsistentGrants(users)
  /\ deletedAt = {}
  /\ InitSlots

CfgNext ==
  \/ \E email \in {"b@x", "c@x"}, newRole \in {"Supervisor", Null}, configured \in BOOLEAN :
       CurEntry("r1", "a@x", email, newRole, configured)
  \/ ChangeUserRoleStep("r1")

SpecCfg == CfgInit /\ [][CfgNext]_vars

\* The request of a running invocation is cancelled (the caller disconnects).
\* changeUserRole takes no signal or context and the wait of
\* updateAzureADWithRetry is a bare setTimeout: nothing reads the flag.
Cancel(p) ==
  /\ pc[p] \notin {"idle", "done"}
  /\ ~req[p].cancelled
  /\ req' = [req EXCEPT ![p].cancelled = TRUE]
  /\ UNCHANGED <<users, grants, pc, targetUser, attempt, pending, result, calls,
                 auditBy, deletedAt>>

\* changeUserRole by the Admin "a@x" on "b@x" with requests that may be
\* cancelled while they run.
CancelNext ==
  \/ \E newRole \in {"Supervisor", Null} : CurStart("r1", "a@x", "b@x", newRole)
  \/ ChangeUserRoleStep("r1")
  \/ Cancel("r1")

SpecCancel == CfgInit /\ [][CancelNext]_vars

\* changeUserRole by the Admin "a@x", every call of which eventually returns
\* or fails: each await of a running invocation is eventually resumed.
LiveNext ==
  \/ \E email \in {"b@x", "c@x"}, newRole \in {"Supervisor", "SuperAdmin", Null} :
       CurStart("r1", "a@x", email, newRole)
  \/ ChangeUserRoleStep("r1")

SpecLive == CfgInit /\ [][LiveNext]_vars /\ WF_vars(ChangeUserRoleStep("r1"))

\* The user-management services by the SuperAdmin "a@x" on "b@x", over tables
\* in which rows may carry the deletedAt marker.
DelInit ==
  /\ users \in {u \in InitUsers : u["a@x"] = "SuperAdmin"
                                  /\ u["b@x"] \in {"SuperAdmin", "Admin", Null}}
  /\ grants = ConsistentGrants(users)
  /\ deletedAt \in SUBSET {e \in Emails : users[e] # Null}
  /\ InitSlots

DelNext ==
  \/ UmStart("r1", "createContactManager", "a@x", "b@x")
  \/ UmStart("r1", "createSuperAdmin", "a@x", "b@x")
  \/ \E userId \in ObjectIds : DsStart("r1", "a@x", userId)
  \/ CreateUserStep("r1")
  \/ AssignAzureADRoleStep("r1")
  \/ ClearList("r1")
  \/ ClearDelete("r1")
  \/ DeleteSuperAdminStep("r1")

SpecDel == DelInit /\ [][DelNext]_vars

\* Two changeUserRole invocations in flight at once on different principals:
\* the Admin "a@x" changes "b@x" in one request and "d@x" in another.
ParAccounts == {"a@x", "b@x", "d@x"}

ParTarget(p) == IF p = "r1" THEN "b@x" ELSE "d@x"

ParInit ==
  /\ users \in {u \in [ParAccounts -> Roles \cup {Null}] :
                  /\ u["a@x"] = "Admin"
                  /\ u["b@x"] \in {"Employee", Null}
                  /\ u["d@x"] \in {"Employee", Null}}
  /\ grants = [d \in ParAccounts |-> IF users[d] = Null THEN {} ELSE {users[d]}]
  /\ deletedAt = {}
  /\ InitSlots

ParNext ==
  \E p \in Procs :
    \/ /\ pc[p] = "idle"
       /\ \E newRole \in {"Supervisor", Null} : CurStart(p, "a@x", ParTarget(p), newRole)
    \/ ChangeUserRoleStep(p)

SpecPar == ParInit /\ [][ParNext]_vars

\* changeSupervisorAssignments by the Admin "a@x" over a table of three rows.
SupEmailLists == {<<>>, <<"d@x">>, <<"b@x", "d@x">>, <<"A@x", "d@x">>, <<"d@x", "b@x">>}

SupInit ==
  /\ users \in {u \in [ParAccounts -> Roles \cup {Null}] :
                  /\ u["a@x"] = "Admin"
                  /\ u["b@x"] \in {"Supervisor", "Employee"}
                  /\ u["d@x"] \in {"Employee", "Admin", Null}}
  /\ grants = [d \in ParAccounts |-> IF users[d] = Null THEN {} ELSE {users[d]}]
  /\ deletedAt = {}
  /\ InitSlots

SupNext ==
  \/ \E userEmails \in SupEmailLists, newSupervisorEmail \in {Null, "b@x"} :
       CsStart("r1", "a@x", userEmails, newSupervisorEmail)
  \/ ChangeSupervisorStep("r1")

SpecSup == SupInit /\ [][SupNext]_vars

\* ----------------------------------------------------------------- claims
IsCur(p) == req[p].op = "changeUserRole"

\* The invocation has left validation: it has reached the directory.
PastValidation(p) == pc[p] = "curResolve" \/ calls[p].graph > 0

\* C1: a changeUserRole whose userEmail equals the caller's e-mail is rejected
\* with CANNOT_CHANGE_OWN_ROLE for every requested role, and has issued no
\* table call, no directory call and no audit entry.
C1_NoSelfChange ==
  \A p \in Procs :
    (IsCur(p) /\ req[p].email = req[p].caller) =>
      /\ pc[p] = "done"
      /\ result[p] = Thrown("CANNOT_CHANGE_OWN_ROLE")
      /\ calls[p] = NoCalls
      /\ auditBy[p] = <<>>

C1_Witness ==
  \E p \in Procs :
    /\ IsCur(p) /\ req[p].email = req[p].caller /\ req[p].newRole = Null
    /\ pc[p] = "done" /\ result[p].error = "CANNOT_CHANGE_OWN_ROLE"

\* C2 (as claimed): whenever changeUserRole ends validation for a target whose
\* local role is SuperAdmin (the caller not being the target), the outcome is
\* the CANNOT_CHANGE_SUPERADMIN denial and no other.
C2_SuperAdminProtected ==
  [][\A p \in Procs :
       ( /\ req'[p].op = "changeUserRole"
         /\ pc[p] \in {"idle", "done", "curLookup"}
         /\ pc'[p] \notin {"idle", "curLookup"}
         /\ req'[p].caller # req'[p].email
         /\ getUserByEmail(users, req'[p].email) = "SuperAdmin"
         /\ result'[p].error # "DB_ERROR" )
       => (pc'[p] = "done" /\ result'[p] = Thrown("CANNOT_CHANGE_SUPERADMIN"))]_vars

\* C3: a Supervisor caller who is not the target gets SUPERVISOR_LIMITED_ACCESS
\* for every requested role other than Employee (removal included), before
\* any call is issued; the invocation gets past validation only with Employee.
C3_SupervisorScope ==
  \A p \in Procs :
    (IsCur(p) /\ req[p].callerRole = "Supervisor" /\ req[p].email # req[p].caller) =>
      /\ req[p].newRole # "Employee" =>
           /\ pc[p] = "done"
           /\ result[p] = Thrown("SUPERVISOR_LIMITED_ACCESS")
           /\ calls[p] = NoCalls
      /\ PastValidation(p) => req[p].newRole = "Employee"

C3_Witness ==
  \E p \in Procs :
    /\ IsCur(p) /\ req[p].callerRole = "Supervisor" /\ req[p].email # req[p].caller
    /\ req[p].newRole = Null
    /\ pc[p] = "done" /\ result[p].error = "SUPERVISOR_LIMITED_ACCESS"

\* Between the read of the target and the local upsert the table still holds
\* what was read, and the rollback is entered only after MAX_RETRIES attempts.
C4_Pre ==
  \A p \in Procs :
    /\ (IsCur(p) /\ pc[p] \in {"curResolve", "curToken", "clearList", "clearDelete",
                               "curDisplayName", "curUpsert"})
         => getUserByEmail(users, req[p].email) = targetUser[p]
    /\ pc[p] = "curRollback" =>
         (attempt[p] = MAX_RETRIES /\ getUserByEmail(users, req[p].email) = req[p].newRole)

C4_Step ==
  \A p \in Procs :
    (pc[p] = "curRollback" /\ pc'[p] = "done" /\ result'[p].kind = "returned") =>
      /\ result'[p].status = "ROLLBACK_REQUIRED"
      /\ getUserByEmail(users', req[p].email) = targetUser[p]

\* C4: when every assign attempt has failed after the local upsert and
\* changeUserRole returns, the table holds for the target the role read before
\* the call (no row if there was none) and the status is ROLLBACK_REQUIRED.
C4_RollbackRestores == [] C4_Pre /\ [][C4_Step]_vars

C4_Witness ==
  \E p \in Procs :
    /\ IsCur(p) /\ pc[p] = "done" /\ result[p].status = "ROLLBACK_REQUIRED"
    /\ targetUser[p] \in Roles /\ req[p].newRole # "SuperAdmin"
    /\ getUserByEmail(users, req[p].email) = targetUser[p]

\* The local role of an e-mail and its directory assignments denote the same
\* role (no row and no assignment for a removed principal).
Agree(u, g, e) == g[e] = (IF u[e] = Null THEN {} ELSE {u[e]})

\* C5 (as claimed): at the step at which a changeUserRole returns SUCCESS, the
\* table and the directory agree on the target.
C5_NoPartialCommit ==
  [][\A p \in Procs :
       ( /\ req[p].op = "changeUserRole"
         /\ pc[p] \notin {"idle", "done"} /\ pc'[p] = "done"
         /\ result'[p].status = "SUCCESS" )
       => Agree(users', grants', Target(p))]_vars

\* C6 (as claimed): a changeUserRole that has returned SUCCESS has appended
\* exactly one audit entry, with dataBefore the row read before the operation
\* (null if none) and dataAfter the new role (null for a removal).
C6_AuditComplete ==
  \A p \in Procs :
    (IsCur(p) /\ pc[p] = "done" /\ result[p].status = "SUCCESS") =>
      /\ Len(auditBy[p]) = 1
      /\ auditBy[p][1].dataBefore = targetUser[p]
      /\ auditBy[p][1].dataAfter = req[p].newRole

\* C7 (as claimed): an invocation whose caller is not a SuperAdmin and whose
\* target was read as a SuperAdmin row leaves that row a SuperAdmin at every
\* one of its steps.
C7_SuperAdminKept ==
  [][\A p \in Procs :
       ( /\ pc[p] \notin {"idle", "done"}
         /\ req[p].callerRole # "SuperAdmin"
         /\ targetUser[p] = "SuperAdmin"
         /\ users[Target(p)] = "SuperAdmin" )
       => users'[Target(p)] = "SuperAdmin"]_vars

\* C8 (as claimed): started with at least one SuperAdmin, the table holds at
\* least one SuperAdmin row in every reachable state, whatever the interleaving
\* of the invocations.
C8_NeverZeroSuperAdmins == countSuperAdmins(users) >= 1

\* Role Policy of the design: decide, rules 1 to 7 in order; a permit of the
\* role rules 3 to 5 is subject to the no-op rule 7.  Reasons are named by the
\* messages of the service.
Decide(actorIsTarget, actingRole, currentTargetRole, requestedRole) ==
  LET roleRule ==
        IF actingRole = "SuperAdmin" THEN OK
        ELSE IF actingRole = "Admin" /\ requestedRole # "SuperAdmin" THEN OK
        ELSE IF actingRole = "Supervisor"
             THEN (IF requestedRole = "Employee" THEN OK ELSE "SUPERVISOR_LIMITED_ACCESS")
        ELSE "INSUFFICIENT_PERMISSIONS"
  IN IF actorIsTarget THEN "CANNOT_CHANGE_OWN_ROLE"
     ELSE IF currentTargetRole = "SuperAdmin" THEN "CANNOT_CHANGE_SUPERADMIN"
     ELSE IF roleRule # OK THEN roleRule
     ELSE IF requestedRole = currentTargetRole THEN "USER_ALREADY_HAS_ROLE"
     ELSE OK

\* C9 (as claimed): whenever the validation of changeUserRole ends, with a
\* denial or by letting the request through, its decision and reason are
\* those of decide.
C9_PolicyConformance ==
  [][\A p \in Procs :
       ( /\ req'[p].op = "changeUserRole"
         /\ pc[p] \in {"idle", "done", "curLookup"}
         /\ pc'[p] \notin {"idle", "curLookup"}
         /\ result'[p].error # "DB_ERROR" )
       => (IF pc'[p] = "done" THEN result'[p].error ELSE OK)
            = Decide(req'[p].caller = req'[p].email, req'[p].callerRole,
                     getUserByEmail(users, req'[p].email), req'[p].newRole)]_vars

\* C10 (as claimed): a changeUserRole by an Admin that requests SuperAdmin is
\* denied during validation, so at no point of such an invocation (the window
\* between the local upsert and the end of the assign retries included) does
\* the target's row hold SuperAdmin without having held it before the call.
C10_AdminNeverGrantsSuperAdmin ==
  \A p \in Procs :
    (IsCur(p) /\ req[p].callerRole = "Admin" /\ req[p].newRole = "SuperAdmin") =>
      /\ pc[p] \in {"curLookup", "done"}
      /\ pc[p] = "done" => result[p].kind = "thrown"
      /\ (pc[p] \in {"curAssign", "curWait", "curRollback"} /\ targetUser[p] # "SuperAdmin")
           => getUserByEmail(users, req[p].email) # "SuperAdmin"

\* C11 (as claimed): a changeUserRole by an Employee or ContactManager caller
\* on another user never gets past validation, whether or not the target has
\* a row, and ends with the insufficient-privilege denial (the SuperAdmin
\* protection, which the policy ranks first, and a failed read are let through).
C11_InsufficientPrivilege ==
  \A p \in Procs :
    (IsCur(p) /\ req[p].callerRole \in {"Employee", "ContactManager"}
       /\ req[p].email # req[p].caller) =>
      /\ ~PastValidation(p)
      /\ pc[p] = "done" =>
           result[p].error \in {"INSUFFICIENT_PERMISSIONS", "CANNOT_CHANGE_SUPERADMIN",
                                "DB_ERROR"}

\* The denials of the role rules of changeUserRole.
PolicyDenials ==
  {"CANNOT_CHANGE_OWN_ROLE", "CANNOT_CHANGE_SUPERADMIN", "SUPERVISOR_LIMITED_ACCESS",
   "INSUFFICIENT_PERMISSIONS", "USER_ALREADY_HAS_ROLE"}

Denied(p) ==
  IsCur(p) /\ pc[p] = "done" /\ result[p].kind = "thrown" /\ result[p].error \in PolicyDenials

\* A denied invocation has issued no directory call, at most the one read of
\* the target, and no audit entry.
C12_Quiet ==
  \A p \in Procs :
    Denied(p) => (calls[p].graph = 0 /\ calls[p].db <= 1 /\ auditBy[p] = <<>>)

\* The steps of an invocation up to a denial (the entry and the read of the
\* target) leave the table and the directory as they were.
C12_Step ==
  \A p \in Procs :
    ( /\ req'[p].op = "changeUserRole"
      /\ \/ pc'[p] = "curLookup"
         \/ /\ pc'[p] = "done" /\ result'[p].kind = "thrown"
            /\ result'[p].error \in PolicyDenials )
    => (users' = users /\ grants' = grants /\ pc[p] \in {"idle", "done", "curLookup"})

\* C12: a changeUserRole that ends with a policy denial has changed neither
\* the table, nor the directory assignments, nor the audit log, and has issued
\* no directory call.
C12_DenialNoSideEffects == [] C12_Quiet /\ [][C12_Step]_vars

C12_Witness ==
  \E p \in Procs :
    /\ Denied(p) /\ result[p].error = "USER_ALREADY_HAS_ROLE" /\ calls[p].db = 1
    /\ \E q \in Procs : Denied(q) /\ targetUser[q] \in Roles

\* C13 (as claimed): changeUserRole fails with the not-found error exactly
\* when the directory has no account for the e-mail, and at that point
\* nothing has been written.
C13_PrincipalNotFound ==
  \A p \in Procs :
    IsCur(p) =>
      /\ (pc[p] = "done" /\ result[p].error = "USER_NOT_FOUND_IN_AZURE_AD") =>
           /\ ResolveAccount(req[p].email) = Null
           /\ calls[p].db = 1 /\ auditBy[p] = <<>>
      /\ pc[p] = "curToken" => ResolveAccount(req[p].email) # Null

\* C14 (as claimed): when the clear of changeUserRole fails, on the list call
\* or on a delete call, none of the principal's assignments has been deleted
\* and the target's row is the one read before the call.
C14_ClearFailsIntact ==
  [][\A p \in Procs :
       ( /\ IsCur(p) /\ pc[p] \in {"clearList", "clearDelete"}
         /\ pc'[p] = "done" /\ result'[p].kind = "thrown" )
       => /\ pending'[p].removed = {}
          /\ grants' = grants
          /\ getUserByEmail(users', req[p].email) = targetUser[p]]_vars

\* C18 (as claimed): no directory account holds two or more app-role
\* assignments on the application's service principal.
C18_OneGrant == \A d \in DirAccounts : Cardinality(grants[d]) <= 1

\* Positions of changeUserRole after the directory assignments were cleared.
PostClear ==
  {"curDelete", "curAuditDelete", "curDisplayName", "curUpsert", "curAssign", "curWait",
   "curRollback", "curAudit", "curOffline"}

\* C15 (as claimed): a changeUserRole that ends after the clear ends with a
\* returned outcome (SUCCESS or ROLLBACK_REQUIRED), never with a thrown error.
C15_NoRawException ==
  [][\A p \in Procs :
       (IsCur(p) /\ pc[p] \in PostClear /\ pc'[p] = "done")
       => (result'[p].kind = "returned"
           /\ result'[p].status \in {"SUCCESS", "ROLLBACK_REQUIRED"})]_vars

\* C16 (as claimed): once both stores are updated, the audit write cannot end
\* the invocation with an error: from the audit step on, changeUserRole either
\* goes on or returns SUCCESS with azureADUpdated.
C16_AuditFailureHidden ==
  [][\A p \in Procs :
       (IsCur(p) /\ pc[p] \in {"curAudit", "curAuditDelete"} /\ pc'[p] = "done")
       => (result'[p].status = "SUCCESS" /\ result'[p].azureADUpdated)]_vars

\* C17 (as claimed): whatever becomes of setUserOffline, the invocation that
\* reached it returns SUCCESS.
C17_PresenceFireAndForget ==
  [][\A p \in Procs :
       (IsCur(p) /\ pc[p] = "curOffline" /\ pc'[p] = "done")
       => result'[p] = Returned("SUCCESS", targetUser[p], req[p].newRole, TRUE, FALSE)]_vars

\* C19: the fields of a returned result are fixed by its status: SUCCESS has
\* azureADUpdated, no rollbackRequired, the requested role and the role read
\* before any write (undefined if there was no row); ROLLBACK_REQUIRED has the
\* opposite flags, the attempted role and the same previousRole; the two flags
\* never agree.
C19_ResultFields ==
  \A p \in Procs :
    (IsCur(p) /\ pc[p] = "done" /\ result[p].kind = "returned") =>
      /\ result[p].status \in {"SUCCESS", "ROLLBACK_REQUIRED"}
      /\ result[p].azureADUpdated = (result[p].status = "SUCCESS")
      /\ result[p].rollbackRequired = (result[p].status = "ROLLBACK_REQUIRED")
      /\ result[p].azureADUpdated # result[p].rollbackRequired
      /\ result[p].newRole = req[p].newRole
      /\ result[p].previousRole = (IF targetUser[p] = Null THEN Undefined ELSE targetUser[p])

C19_Witness ==
  \E p \in Procs :
    /\ IsCur(p) /\ pc[p] = "done" /\ result[p].status = "ROLLBACK_REQUIRED"
    /\ result[p].previousRole = Undefined /\ result[p].newRole \in Roles

\* A removal in progress or ended.
IsRemoval(p) == IsCur(p) /\ req[p].newRole = Null

\* A removal never reaches the upsert, the assign attempts, the rollback or
\* the ROLE_CHANGE audit; it deletes only with the principal's assignments
\* cleared; when it returns, it returns SUCCESS with no row and no assignment
\* left; without a row it has issued no table call but the read.
C20_State ==
  \A p \in Procs :
    IsRemoval(p) =>
      /\ pc[p] \notin {"curDisplayName", "curUpsert", "curAssign", "curWait",
                       "curRollback", "curAudit", "curOffline"}
      /\ attempt[p] = 0
      /\ pc[p] \in {"curDelete", "curAuditDelete"} =>
           (GrantsOf(Principal(p)) = {} /\ targetUser[p] # Null)
      /\ (pc[p] = "done" /\ result[p].kind = "returned") =>
           /\ result[p].status = "SUCCESS"
           /\ GrantsOf(Principal(p)) = {}
           /\ getUserByEmail(users, req[p].email) = Null
           /\ targetUser[p] = Null => calls[p].db = 1

\* The only step of a removal that writes the table is the delete.
C20_Step ==
  \A p \in Procs :
    (IsRemoval(p) /\ pc[p] \notin {"idle", "done"} /\ users' # users) =>
      (pc[p] = "curDelete" /\ users' = deleteUserByEmail(users, req[p].email))

\* C20: a permitted removal clears the directory assignments first, deletes
\* the row only then and only if one was read, attempts neither an assignment
\* nor a rollback, and returns SUCCESS; with no row it writes nothing locally.
C20_Removal == [] C20_State /\ [][C20_Step]_vars

C20_Witness ==
  \E p \in Procs :
    /\ IsRemoval(p) /\ pc[p] = "done" /\ result[p].status = "SUCCESS"
    /\ targetUser[p] \in Roles /\ getUserByEmail(users, req[p].email) = Null
    /\ Len(auditBy[p]) = 1

\* C21 (as claimed): in a process without directory configuration a
\* changeUserRole that reaches the directory ends, at its first token
\* acquisition, with the configuration error and no other.
C21_ConfigErrorDistinct ==
  \A p \in Procs :
    (IsCur(p) /\ ~req[p].configured /\ calls[p].graph > 0) =>
      /\ pc[p] = "done"
      /\ result[p] = Thrown("MISSING_AZURE_AD_CONFIG")
      /\ calls[p].graph = 1

\* C22 (as claimed): every audit entry with action DELETE has dataAfter null
\* and every audit entry with action CREATE has dataBefore null, whether the
\* principal had a row before or not.
C22_AuditShape ==
  \A p \in Procs : \A i \in 1..Len(auditBy[p]) :
    /\ auditBy[p][i].action = "DELETE" => auditBy[p][i].dataAfter = Null
    /\ auditBy[p][i].action = "CREATE" => auditBy[p][i].dataBefore = Null

\* C23 (as claimed): a row whose deletedAt is set is treated as absent by the
\* user-management services: deleteSuperAdmin does not accept it as its
\* target, the lookup of createSuperAdmin and createContactManager does not
\* return it as the existing user, and the count that lets deleteSuperAdmin
\* proceed does not include it.
C23_DeletedIsAbsent ==
  [][\A p \in Procs :
       /\ (pc[p] = "dsLookup" /\ OwnerOfOid(req[p].email) \in deletedAt)
            => (pc'[p] = "done" /\ result'[p].kind = "thrown")
       /\ (pc[p] = "umLookup" /\ Target(p) \in deletedAt)
            => (/\ targetUser'[p] = Null
                /\ result'[p].error \notin {"SUPER_ADMIN_ALREADY_EXISTS",
                                            "CONTACT_MANAGER_ALREADY_EXISTS"})
       /\ (pc[p] = "dsCount" /\ pc'[p] = "adToken")
            => Cardinality({e \in Emails : users[e] = "SuperAdmin"
                                            /\ e \notin deletedAt}) > 1]_vars

\* C24: two changeUserRole invocations on different principals do not
\* interfere: every step of an invocation leaves the row and the directory
\* assignments of every other principal as they were (the clear deletes only
\* assignments of its own principal), and each invocation ends as it does
\* alone: SUCCESS with table and directory agreeing on its target,
\* ROLLBACK_REQUIRED with the row it read restored.
C24_Step ==
  \A p \in Procs :
    (pc'[p] # pc[p]) =>
      /\ \A e \in (DOMAIN users) \ {Target(p)'} : users'[e] = users[e]
      /\ \A d \in (DOMAIN grants) \ {Principal(p)'} : grants'[d] = grants[d]
      /\ (pc'[p] = "done" /\ result'[p].status = "SUCCESS")
           => Agree(users', grants', Target(p))
      /\ (pc'[p] = "done" /\ result'[p].status = "ROLLBACK_REQUIRED")
           => users'[Target(p)] = targetUser[p]

C24_Independent == [][C24_Step]_vars

\* One invocation is deleting the listed assignments of its principal while
\* the other is in flight and the other's principal holds an assignment.
C24_Witness ==
  /\ pc["r1"] = "clearDelete"
  /\ pc["r2"] \in {"clearList", "curAssign", "curWait", "curAudit"}
  /\ grants["d@x"] # {}
  /\ Target("r1") # Target("r2")

\* C25 (as claimed): a clear that returns has processed every page of the
\* listing: when removeAllAppRolesFromUser or
\* removeAllAppRolesFromPrincipalOnSp returns, its principal holds no
\* assignment on the service principal.
C25_AllPages ==
  [][\A p \in Procs :
       /\ ( /\ pc[p] \in {"ruList", "ruDelete"}
            /\ pc'[p] = "done" /\ result'[p].kind = "returned" )
          => grants'[Principal(p)] = {}
       /\ ( /\ pc[p] \in {"clearList", "clearDelete"}
            /\ pc'[p] # "clearDelete"
            /\ ~(pc'[p] = "done" /\ result'[p].kind = "thrown") )
          => grants'[Principal(p)] = {}]_vars

\* C26 (as claimed): a changeUserRole whose request is cancelled while it
\* waits between two assign attempts makes no further attempt: its next step
\* is the rollback.
C26_CancellableBackoff ==
  [][\A p \in Procs :
       (IsCur(p) /\ pc[p] = "curWait" /\ req[p].cancelled /\ pc'[p] # pc[p])
         => pc'[p] = "curRollback"]_vars

C27_State ==
  \A p \in Procs :
    IsCur(p) =>
      /\ attempt[p] \in 0..MAX_RETRIES
      /\ pc[p] = "curAssign" => attempt[p] \in 1..MAX_RETRIES
      /\ pc[p] = "curWait" => attempt[p] \in 1..(MAX_RETRIES - 1)
      /\ pc[p] = "curRollback" => attempt[p] = MAX_RETRIES
      /\ pc[p] \in {"curAudit", "curOffline"} => attempt[p] >= 1

C27_Step ==
  \A p \in Procs :
    (IsCur(p) /\ pc'[p] # pc[p]) =>
      /\ pc[p] = "curAssign" =>
           /\ pc'[p] \in {"curAudit", "curWait", "curRollback"}
           /\ calls'[p].graph = calls[p].graph + 1
           /\ attempt'[p] = attempt[p]
      /\ pc'[p] = "curAssign" =>
           \/ pc[p] = "curUpsert" /\ attempt'[p] = 1
           \/ pc[p] = "curWait" /\ attempt'[p] = attempt[p] + 1
      /\ pc'[p] = "curWait" => (pc[p] = "curAssign" /\ attempt[p] < MAX_RETRIES)
      /\ pc'[p] = "curRollback" => (pc[p] = "curAssign" /\ attempt[p] = MAX_RETRIES)
      /\ pc[p] \in {"curAudit", "curOffline", "curRollback"} =>
           (pc'[p] \in {"curOffline", "done"} /\ calls'[p].graph = calls[p].graph)

\* C27: within one changeUserRole the assign is attempted at least once and at
\* most MAX_RETRIES (2) times; no attempt follows a successful one; the
\* rollback is reached only from the failed attempt number MAX_RETRIES; a wait
\* occurs only between a failed attempt and the next attempt, never after the
\* last one.
C27_BoundedRetry == [] C27_State /\ [][C27_Step]_vars

\* The second attempt has failed after a wait and the rollback is next.
C27_Witness ==
  \E p \in Procs :
    /\ IsCur(p) /\ pc[p] = "curRollback" /\ attempt[p] = MAX_RETRIES
    /\ roleIdMap(req[p].newRole) # Undefined

C28_State ==
  \A p \in Procs :
    (IsCur(p) /\ req[p].newRole # Null) =>
      /\ pc[p] \in {"curDisplayName", "curUpsert"} =>
           (GrantsOf(Principal(p)) = {} /\ calls[p].db = 1 /\ attempt[p] = 0)
      /\ pc[p] \in {"curLookup", "curResolve", "curToken", "clearList", "clearDelete"} =>
           (calls[p].db <= 1 /\ attempt[p] = 0)
      /\ (pc[p] = "curAssign" /\ attempt[p] = 1) =>
           getUserByEmail(users, req[p].email) = req[p].newRole

C28_Step ==
  \A p \in Procs :
    (IsCur(p)' /\ req'[p].newRole # Null /\ pc'[p] # pc[p]) =>
      /\ users' # users => pc[p] \in {"curUpsert", "curRollback"}
      /\ pc'[p] = "clearList" => pc[p] = "curToken"
      /\ pc'[p] = "curToken" => pc[p] = "curResolve"
      /\ pc'[p] = "curResolve" => pc[p] = "curLookup"
      /\ pc'[p] = "curLookup" => pc[p] \in {"idle", "done"}
      /\ pc'[p] = "curDisplayName" =>
           (pc[p] \in {"clearList", "clearDelete"} /\ grants'[Principal(p)] = {})
      /\ pc'[p] = "curUpsert" => pc[p] = "curDisplayName"
      /\ pc'[p] = "curAssign" =>
           \/ /\ pc[p] = "curUpsert"
              /\ users' = upsertUserRole(users, req[p].email, req[p].newRole)
           \/ pc[p] = "curWait"

\* C28: in a changeUserRole that is not a removal the clear is entered once,
\* after the token, and has emptied the principal's assignments before any
\* write of the table is issued; the upsert to the requested role has
\* completed before the first assign attempt; the only steps that write the
\* table are the upsert and the rollback.
C28_StepOrder == [] C28_State /\ [][C28_Step]_vars

\* The first assign attempt is about to be issued on a principal whose former
\* assignment was cleared and whose row now holds the requested role.
C28_Witness ==
  \E p \in Procs :
    /\ IsCur(p) /\ req[p].newRole # Null
    /\ pc[p] = "curAssign" /\ attempt[p] = 1
    /\ targetUser[p] \notin {Null, req[p].newRole}
    /\ GrantsOf(Principal(p)) = {}
    /\ users[Target(p)] = req[p].newRole

\* C29 (as claimed): a changeUserRole whose compensating write fails issues
\* that write once and ends in an outcome of its own, which is neither the
\* compensated ROLLBACK_REQUIRED nor SUCCESS nor the error of a store failure
\* that happened before anything was changed.
C29_RollbackFailedDistinct ==
  [][\A p \in Procs :
       ( /\ IsCur(p) /\ pc[p] = "curRollback" /\ pc'[p] = "done"
         /\ targetUser[p] # req[p].newRole
         /\ users'[Target(p)] = req[p].newRole )
       => /\ calls'[p].db = calls[p].db + 1
          /\ result'[p] # Thrown("DB_ERROR")
          /\ result'[p].status \notin {"SUCCESS", "ROLLBACK_REQUIRED"}]_vars

\* C30 (as claimed): at the step at which a changeUserRole returns
\* ROLLBACK_REQUIRED its principal holds no assignment on the service
\* principal and the table holds the row read before the operation, also
\* when an assign attempt reported as failed had taken effect.
C30_RolledBackState ==
  [][\A p \in Procs :
       ( /\ IsCur(p) /\ pc[p] = "curRollback" /\ pc'[p] = "done"
         /\ result'[p].status = "ROLLBACK_REQUIRED" )
       => /\ grants'[Principal(p)] = {}
          /\ getUserByEmail(users', req[p].email) = targetUser[p]]_vars

\* C31 (as claimed): every role a permitted changeUserRole may request has an
\* app-role id in the map of the assign step, so that an assign attempt can
\* succeed and the invocation end in SUCCESS: no invocation is at the assign
\* step, or rolls back, with a role the map does not hold.
C31_EveryRoleAssignable ==
  \A p \in Procs :
    (IsCur(p) /\ pc[p] \in {"curAssign", "curWait", "curRollback"}) =>
      roleIdMap(req[p].newRole) # Undefined

\* A slot that has ended issues no call and changes neither store until a new
\* invocation is started in it.
C32_Step ==
  \A p \in Procs :
    (pc[p] = "done" /\ pc'[p] = "done") =>
      (calls'[p] = calls[p] /\ users' = users /\ grants' = grants)

\* C32: when every store and directory call eventually returns or fails, a
\* changeUserRole invocation eventually ends, by returning or by throwing, and
\* once ended it issues no further call.
C32_Terminates ==
  /\ \A p \in Procs : (IsCur(p) /\ pc[p] \notin {"idle", "done"}) ~> (pc[p] = "done")
  /\ [][C32_Step]_vars

\* An invocation has ended after the longest path: clear, upsert, two failed
\* assign attempts with the wait between them, and the rollback.
C32_Witness ==
  \E p \in Procs :
    /\ IsCur(p) /\ pc[p] = "done"
    /\ result[p].status = "ROLLBACK_REQUIRED"
    /\ attempt[p] = MAX_RETRIES
    /\ calls[p].graph >= 6

\* C33 (as claimed): of two concurrent changeUserRole invocations on the same
\* principal with different requested roles, once both have ended, the one
\* that returned SUCCESS has its role in the table and in the directory,
\* unless the other returned SUCCESS as well.
C33_CommittedSurvives ==
  \A p, q \in Procs :
    ( /\ p # q /\ IsCur(p) /\ IsCur(q)
      /\ Target(p) = Target(q) /\ req[p].newRole # req[q].newRole
      /\ req[p].newRole # Null
      /\ pc[p] = "done" /\ pc[q] = "done"
      /\ result[p].status = "SUCCESS"
      /\ result[q].status # "SUCCESS" )
    => /\ getUserByEmail(users, req[p].email) = req[p].newRole
       /\ req[p].newRole \in GrantsOf(Principal(p))

\* C34 (as claimed): a changeUserRole whose userEmail differs from the
\* caller's e-mail only in letter case is denied with the self-change reason
\* before any call is issued.
C34_SelfChangeAnyCase ==
  \A p \in Procs :
    ( /\ IsCur(p) /\ req[p].email # req[p].caller
      /\ toLowerCase(req[p].email) = toLowerCase(req[p].caller) )
    => /\ pc[p] = "done"
       /\ result[p] = Thrown("CANNOT_CHANGE_OWN_ROLE")
       /\ calls[p] = NoCalls

\* C35 (as claimed): when deleteSuperAdmin returns, the deleted principal
\* holds no assignment on the service principal.
C35_DeletionRevokes ==
  \A p \in Procs :
    ( /\ req[p].op = "deleteSuperAdmin"
      /\ pc[p] = "done" /\ result[p].kind = "returned" )
    => GrantsOf(Principal(p)) = {}

\* C36 (as claimed): a deleteSuperAdmin whose userId is the object id of the
\* caller's own account, the identifier the lookup uses, is rejected with
\* CANNOT_DELETE_YOURSELF before any call.
C36_NoSelfDeletion ==
  \A p \in Procs :
    ( /\ req[p].op = "deleteSuperAdmin" /\ req[p].callerRole = "SuperAdmin"
      /\ req[p].caller \notin deletedAt
      /\ OwnerOfOid(req[p].email) = req[p].caller )
    => /\ pc[p] = "done"
       /\ result[p] = Thrown("CANNOT_DELETE_YOURSELF")
       /\ calls[p] = NoCalls

\* C37 (as claimed): createSuperAdmin and createContactManager give the
\* principal the new role in the table only after assignAzureADRole has
\* succeeded: while the assignment has not completed, and after it has failed,
\* no row carries the new role.
C37_RoleAfterDirectory ==
  \A p \in Procs :
    ( /\ req[p].op \in {"createSuperAdmin", "createContactManager"}
      /\ targetUser[p] # req[p].newRole
      /\ \/ pc[p] \in {"umFind", "umFetch", "umCreate", "adToken",
                       "clearList", "clearDelete", "adAssign"}
         \/ (pc[p] = "done" /\ result[p].error \in {"GRAPH_ERROR", "MISSING_AZURE_AD_CONFIG"}) )
    => repoGetUserByEmail(users, req[p].email) # req[p].newRole

C38_State ==
  \A p \in Procs :
    ( /\ IsCur(p) /\ pc[p] = "done"
      /\ \/ result[p].error \in PolicyDenials
         \/ result[p].error \in {"USER_NOT_FOUND_IN_AZURE_AD", "GRAPH_ERROR"}
         \/ result[p].status = "ROLLBACK_REQUIRED" )
    => auditBy[p] = <<>>

C38_Step ==
  \A p \in Procs :
    (IsCur(p) /\ auditBy'[p] # auditBy[p] /\ auditBy'[p] # <<>>) =>
      /\ Len(auditBy'[p]) = 1
      /\ auditBy'[p][1].action = "ROLE_CHANGE" =>
           /\ pc[p] = "curAudit"
           /\ roleIdMap(req[p].newRole) \in GrantsOf(Principal(p))
           /\ getUserByEmail(users, req[p].email) = req[p].newRole

\* C38: a changeUserRole that ends in a denial, in principal-not-found, in a
\* failure of the clear or in ROLLBACK_REQUIRED has appended no audit entry,
\* and a ROLE_CHANGE entry is appended only by the step that follows a
\* successful assign attempt.
C38_NoAuditWithoutCommit == [] C38_State /\ [][C38_Step]_vars

\* An invocation that wrote the table, exhausted its attempts and rolled back
\* has ended without an audit entry.
C38_Witness ==
  \E p \in Procs :
    /\ IsCur(p) /\ pc[p] = "done"
    /\ result[p].status = "ROLLBACK_REQUIRED"
    /\ roleIdMap(req[p].newRole) # Undefined
    /\ auditBy[p] = <<>>

IsCs(p) == req[p].op = "changeSupervisorAssignments"

C39_State ==
  \A p \in Procs :
    (IsCs(p) /\ pc[p] = "done" /\ result[p].kind = "returned") =>
      LET r == result[p]
          n == Len(req[p].email) IN
        /\ attempt[p] = n
        /\ r.updatedCount + r.skippedCount = n
        /\ r.updatedCount = Len(r.updated) /\ r.skippedCount = Len(r.skipped)
        /\ (r.status = "SUCCESS") <=> (r.skippedCount = 0)
        /\ (r.status = "PARTIAL_SUCCESS") <=> (r.updatedCount > 0 /\ r.skippedCount > 0)
        /\ (r.status = "FAILED") <=> (r.updatedCount = 0 /\ r.skippedCount > 0)
        /\ \A i \in 1..n :
             findByEmail(users, req[p].email[i]) \notin {Null, "Employee"} =>
               \E k \in 1..Len(r.skipped) : r.skipped[k] = req[p].email[i]

C39_Step ==
  \A p \in Procs :
    (IsCs(p) /\ pc[p] \notin {"idle", "done"}) =>
      /\ \A e \in DOMAIN users : users[e] \notin {Null, "Employee"} => users'[e] = users[e]
      /\ (pc[p] \in {"csFind", "csSupervisor", "csUpsert", "csAudit"} /\ pc'[p] = "done")
           => (result'[p].kind = "returned" /\ attempt[p] = Len(req[p].email))

\* C39: changeSupervisorAssignments leaves the row of every user whose role is
\* not Employee as it was and reports that e-mail as skipped; an error on one
\* e-mail is counted as a skip and the loop goes on to the last e-mail; on
\* return updatedCount + skippedCount is the number of e-mails and the status
\* is SUCCESS iff nothing was skipped, PARTIAL_SUCCESS iff both counts are
\* positive, FAILED iff nothing was updated and something was skipped.
C39_SupervisorAssignments == [] C39_State /\ [][C39_Step]_vars

\* A call over an Admin's e-mail (in another letter case) and an absent
\* user's has returned: one skipped, one updated.
C39_Witness ==
  \E p \in Procs :
    /\ IsCs(p) /\ pc[p] = "done" /\ result[p].kind = "returned"
    /\ req[p].email = <<"A@x", "d@x">>
    /\ result[p].status = "PARTIAL_SUCCESS"
    /\ result[p].skipped = <<"A@x">> /\ result[p].updated = <<"d@x">>
    /\ users["a@x"] = "Admin" /\ users["d@x"] = "Employee"
    /\ targetUser[p] = Null

====
